---- MODULE Spec2Model ----
(***************************************************************************)
(* Dispatch and matching engine of the ambulance routing service.          *)
(*                                                                         *)
(* State: the sos_requests and ambulances tables, the request handlers and *)
(* accept-timeout checks that are in flight (one database transaction per  *)
(* step) and the armed accept-timeout timers.  What a step answers, emits  *)
(* on the socket and appends to event_log is a function of the state it    *)
(* starts in and of its inputs, given by the ...Reply, ...Emits and        *)
(* ...Logs operators beside each action.  SpecJournal keeps them as state: *)
(* the event_log and sos_hospital_scores tables and the last response; the *)
(* specifications of the dispatch races leave those tables out.            *)
(*                                                                         *)
(* Scoring: a score is a whole number of One-ths (fixed point), a total a  *)
(* whole number of (100 * One)-ths, a hospital's latitude a whole number   *)
(* of metres north of the caller, an ETA a whole number of 1/1000 min.     *)
(* The inputs are chosen so that every quotient of scoring.py is exact.    *)
(*                                                                         *)
(* Coordinates: every point lies on one meridian, its latitude counted in  *)
(* whole grid steps from the caller's position; on a meridian the          *)
(* haversine distance is the Earth radius times the absolute difference of *)
(* the latitudes.  Timestamps are kept as set (TRUE) or NULL (FALSE);      *)
(* accepted_at, enroute_at and arrived_at, which nothing reads, are left   *)
(* out.                                                                    *)
(***************************************************************************)
EXTENDS Integers, FiniteSets, Sequences, TLC

VARIABLES sos, ambulances, thr, timers,
          hospitals, Config, event_log, sos_hospital_scores, resp

\* the hospitals table and the configuration: what scoring reads
catalog == <<hospitals, Config>>

\* the event_log and sos_hospital_scores tables and the last response
journal == <<event_log, sos_hospital_scores, resp>>

vars == <<sos, ambulances, thr, timers, hospitals, Config, event_log,
          sos_hospital_scores, resp>>

(* ------------------------------ bounds -------------------------------- *)

NumReqs == 2

NumAmbs == 2

NumHospitals == 1

\* the longest hospital collection given to rank_hospitals
MaxHospitals == 3

\* the most rows of event_log a run of SpecJournal writes
MaxEvents == 3

NumThreads == 2

MaxCoord == 1

(* ----------------------------- universes ------------------------------ *)

NULL == 0

NoCoord == -1

\* the latitude every caller reports: the origin of the grid
PatientLat == 0

Reqs == 1..NumReqs

Ambs == 1..NumAmbs

\* the ids of the rows of the hospitals table
Hospitals == {hospitals[i].id : i \in 1..Len(hospitals)}

Threads == 1..NumThreads

Coords == 0..MaxCoord

\* ids a caller may name: 0 is a missing field, N+1 the id of no row
ReqArgs == 0..NumReqs

AmbArgs == 1..(NumAmbs + 1)

HospitalArgs == 0..(NumHospitals + 1)

EMERGENCY_REQUIREMENTS == {"cardiac", "trauma", "maternity", "burns", "neuro", "general", "accident"}

TypeArgs == {"cardiac", "unlisted"}

Terminal == {"completed", "cancelled"}

Active == {"pending", "assigned", "accepted", "enroute", "arrived"}

\* hospitals in ranked order, as get_best_hospitals returns them in all_scored
RECURSIVE RankedLists(_)
RankedLists(n) ==
    IF n = 0 THEN {<<>>}
    ELSE RankedLists(n - 1) \cup
         {Append(s, h) : s \in {x \in RankedLists(n - 1) : Len(x) = n - 1},
                         h \in Hospitals}

DistinctRanked == {s \in RankedLists(NumHospitals) :
                     \A i, j \in 1..Len(s) : i # j => s[i] # s[j]}

(* ------------------------------- rows --------------------------------- *)

NoRow ==
    [status |-> "none", latitude |-> 0, assigned_ambulance_id |-> NULL,
     selected_hospital_id |-> NULL, backup_hospital_id |-> NULL,
     assigned_at |-> FALSE, completed_at |-> FALSE]

\* database.get_sos_request returns a row
Exists(sid) == sid \in Reqs /\ sos[sid].status # "none"

Idle == [pc |-> "idle", sos_id |-> 0, driver |-> 0, old_amb |-> 0, armed_for |-> 0]

\* one socketio.emit
Event(type, sid, aid) == [type |-> type, sos_id |-> sid, ambulance_id |-> aid]

\* database.log_event: one row of event_log
LogRow(sid, aid, type, detail) ==
    [sos_id |-> sid, ambulance_id |-> aid, event_type |-> type, detail |-> detail]

(* ------------------------------ GeoMath ------------------------------- *)

Abs(x) == IF x < 0 THEN -x ELSE x

\* app._haversine on one meridian, in grid steps
_haversine(lat1, lat2) == Abs(lat2 - lat1)

\* float("inf"): above every distance of the grid
Inf == MaxCoord + 1

\* get_available_ambulances without its WHERE status = 'available'
get_all_ambulances == Ambs

\* database.get_available_ambulances
get_available_ambulances == {a \in Ambs : ambulances[a].status = "available"}

\* NearestFrom with d <= best_dist for d < best_dist
RECURSIVE NearestFromLast(_, _, _, _)
NearestFromLast(i, lat, best, best_dist) ==
    IF i > NumAmbs THEN best
    ELSE IF i \in get_available_ambulances
            /\ _haversine(lat, ambulances[i].latitude) <= best_dist
         THEN NearestFromLast(i + 1, lat, i, _haversine(lat, ambulances[i].latitude))
         ELSE NearestFromLast(i + 1, lat, best, best_dist)

\* the loop of app.find_nearest_driver over ambulances i..NumAmbs, in row order
RECURSIVE NearestFrom(_, _, _, _)
NearestFrom(i, lat, best, best_dist) ==
    IF i > NumAmbs THEN best
    ELSE IF i \in get_available_ambulances
            /\ _haversine(lat, ambulances[i].latitude) < best_dist
         THEN NearestFrom(i + 1, lat, i, _haversine(lat, ambulances[i].latitude))
         ELSE NearestFrom(i + 1, lat, best, best_dist)

find_nearest_driver(lat) == NearestFrom(1, lat, NULL, Inf)

(* ------------------------- database operations ------------------------ *)

\* database.update_sos_hospitals
update_sos_hospitals(s, sid, selected_id, backup_id) ==
    IF sid \in Reqs /\ s[sid].status # "none"
    THEN [s EXCEPT ![sid].selected_hospital_id = selected_id,
                   ![sid].backup_hospital_id = backup_id]
    ELSE s

\* database.assign_ambulance_to_sos, the sos_requests row
AssignSos(s, sid, amb_id) ==
    IF sid \in Reqs /\ s[sid].status # "none"
    THEN [s EXCEPT ![sid].assigned_ambulance_id = amb_id,
                   ![sid].status = "assigned",
                   ![sid].assigned_at = TRUE]
    ELSE s

\* AssignAmb without the link to the request
AssignAmbUnlinked(am, sid, amb_id) ==
    IF amb_id \in Ambs THEN [am EXCEPT ![amb_id].status = "busy"] ELSE am

\* database.assign_ambulance_to_sos, the ambulances row
AssignAmb(am, sid, amb_id) ==
    IF amb_id \in Ambs
    THEN [am EXCEPT ![amb_id].status = "busy", ![amb_id].current_sos_id = sid]
    ELSE am

\* WHERE id=? AND assigned_ambulance_id=? of the driver updates
RowMatches(s, sid, amb_id) ==
    /\ sid \in Reqs
    /\ s[sid].status # "none"
    /\ s[sid].assigned_ambulance_id # NULL
    /\ s[sid].assigned_ambulance_id = amb_id

\* accept_sos_request matching the row on its id alone
accept_sos_requestAnyAmbulance(s, sid, amb_id) ==
    IF sid \in Reqs /\ s[sid].status # "none"
    THEN [s EXCEPT ![sid].status = "accepted"]
    ELSE s

\* database.accept_sos_request: the row is matched on id and ambulance only
accept_sos_request(s, sid, amb_id) ==
    IF RowMatches(s, sid, amb_id) THEN [s EXCEPT ![sid].status = "accepted"] ELSE s

\* database.enroute_sos_request
enroute_sos_request(s, sid, amb_id) ==
    IF RowMatches(s, sid, amb_id) THEN [s EXCEPT ![sid].status = "enroute"] ELSE s

\* database.arrived_sos_request
arrived_sos_request(s, sid, amb_id) ==
    IF RowMatches(s, sid, amb_id) THEN [s EXCEPT ![sid].status = "arrived"] ELSE s

\* LinkedAmb finding no ambulance on any row
LinkedAmbNone(s, sid) == NULL

\* SELECT assigned_ambulance_id FROM sos_requests WHERE id=?, NULL when the
\* row or the link is absent
LinkedAmb(s, sid) ==
    IF sid \in Reqs /\ s[sid].status # "none" THEN s[sid].assigned_ambulance_id ELSE NULL

\* ReleaseAmb leaving current_sos_id as it is
ReleaseAmbKeepLink(am, amb_id) ==
    IF amb_id \in Ambs THEN [am EXCEPT ![amb_id].status = "available"] ELSE am

\* the UPDATE ambulances SET status='available', current_sos_id=NULL of
\* complete_sos_request and unassign_ambulance_from_sos
ReleaseAmb(am, amb_id) ==
    IF amb_id \in Ambs
    THEN [am EXCEPT ![amb_id].status = "available", ![amb_id].current_sos_id = NULL]
    ELSE am

\* CompleteSos without completed_at
CompleteSosNoStamp(s, sid) ==
    IF sid \in Reqs /\ s[sid].status # "none"
    THEN [s EXCEPT ![sid].status = "completed"]
    ELSE s

\* database.complete_sos_request, the sos_requests row
CompleteSos(s, sid) ==
    IF sid \in Reqs /\ s[sid].status # "none"
    THEN [s EXCEPT ![sid].status = "completed", ![sid].completed_at = TRUE]
    ELSE s

\* database.unassign_ambulance_from_sos, the sos_requests row
UnassignSos(s, sid) ==
    IF sid \in Reqs /\ s[sid].status # "none"
    THEN [s EXCEPT ![sid].assigned_ambulance_id = NULL,
                   ![sid].status = "pending",
                   ![sid].assigned_at = FALSE]
    ELSE s

\* UnassignRaises with log_assignment sharing the open connection
UnassignNeverRaises(s, sid) == FALSE

\* database.unassign_ambulance_from_sos raises sqlite3.OperationalError
\* ("database is locked") when the request has an ambulance: log_assignment
\* opens a second connection and inserts while the first still holds the
\* write lock of its uncommitted UPDATE ambulances; the insert gives up after
\* the busy timeout and the first connection's transaction is rolled back
UnassignRaises(s, sid) == LinkedAmb(s, sid) # NULL

(* ------------------------------- timers ------------------------------- *)

\* app._schedule_reassignment: threading.Timer(timeout_sec, _check).start().
\* _check keeps sos_id only; the ambulance claimed at arming time is recorded
\* beside it.  A timer armed for a pair that already has one pending is
\* merged with it.
_schedule_reassignment(tm, sid, amb_id) == tm \cup {<<sid, amb_id>>}

\* worker threads are interchangeable: a new handler takes the first idle one
FirstIdle(t) == thr[t].pc = "idle" /\ \A u \in Threads : u < t => thr[u].pc # "idle"

(* ----------------------------- hospitals ------------------------------ *)

\* fixed point: the score 1.0
One == 6 * 1000000

\* one row of the hospitals table as database._parse_hospital returns it,
\* before its id is known
Hospital(lat, fac, docs, spec, icu, icu_av, gen_av, total, load, hist) ==
    [id |-> NULL, latitude |-> lat, facilities |-> fac, doctors_on_duty |-> docs,
     specializations |-> spec, icu_beds |-> icu, available_icu_beds |-> icu_av,
     available_general_beds |-> gen_av, total_beds |-> total,
     load_percentage |-> load, historical_success_rate |-> hist]

\* 3 km north: every cardiac facility, a cardiologist, declares "Cardiac"
NearCardiac ==
    Hospital(3000, {"ICU", "Cath Lab", "Emergency Ward", "MRI"}, {"Cardiologist"},
             {"Cardiac"}, 2, 1, 1, 2, 40, (8 * One) \div 10)

\* 7.5 km south: an emergency ward and a general physician, bed counts unknown
MidGeneral ==
    Hospital(-7500, {"emergency ward"}, {"General Physician"}, {}, 0, 0, 0, 0, 60,
             One \div 2)

\* 3.004 km south: more beds available than it has, load above 100
Overbooked ==
    Hospital(-3004, {"ICU", "Emergency Ward"}, {"cardiologist"}, {}, 2, 3, 3, 2, 120,
             One)

\* exactly on the default radius
AtRadius ==
    Hospital(15000, {"Emergency Ward"}, {}, {}, 2, 2, 2, 2, 0, One \div 2)

\* 4 m beyond the default radius: 15.004 km, which rounds to 15.0
JustBeyond ==
    Hospital(15004, {"Emergency Ward", "ICU"}, {"General Physician"}, {"general"},
             2, 2, 2, 2, 20, One)

\* 8 m beyond the default radius: 15.008 km, which rounds to 15.01
Beyond ==
    Hospital(-15008, {"Emergency Ward"}, {"General Physician"}, {}, 2, 1, 1, 2, 40,
             One \div 2)

\* 30 km north
Far ==
    Hospital(30000, {"ICU", "Cath Lab", "Emergency Ward"}, {"Cardiologist"},
             {"cardiac"}, 2, 2, 2, 2, 0, One)

\* 6.004 km north: no ICU, one of two general beds free
NoIcu ==
    Hospital(6004, {"Emergency Ward"}, {}, {}, 0, 0, 1, 2, 20, One \div 2)

\* 9 km south: one of two ICU beds free, no bed count
NoWard ==
    Hospital(-9000, {"ICU"}, {"General Physician"}, {}, 2, 1, 0, 0, 60, One \div 2)

\* 2 km north: every cardiac facility and one of the three nice-to-haves, a
\* cardiologist, declares "cardiac", ICU 5/10, general 20/50, load 40
WorkedExample ==
    Hospital(2000, {"ICU", "Cath Lab", "Emergency Ward", "MRI"}, {"Cardiologist"},
             {"cardiac"}, 10, 5, 20, 50, 40, (8 * One) \div 10)

\* at the request: every facility and specialist, every bed free, no load,
\* declares both types
Perfect ==
    Hospital(0, {"ICU", "Cath Lab", "Emergency Ward", "MRI", "Operation Theatre",
                 "Ventilator"},
             {"Cardiologist", "General Physician"}, {"Cardiac", "General"},
             2, 2, 2, 2, 0, One)

\* Perfect with three of its two ICU beds and three of its two beds free
OverbookedCardiac ==
    Hospital(0, {"ICU", "Cath Lab", "Emergency Ward", "MRI", "Operation Theatre",
                 "Ventilator"},
             {"Cardiologist"}, {"Cardiac"}, 2, 3, 3, 2, 0, One)

Profiles ==
    {NearCardiac, MidGeneral, Overbooked, AtRadius, JustBeyond, Beyond, Far,
     NoIcu, NoWard, WorkedExample, Perfect, OverbookedCardiac}

\* the rows in the order of their AUTOINCREMENT ids, as get_all_hospitals
\* returns them
Numbered(rows) == [i \in 1..Len(rows) |-> [rows[i] EXCEPT !.id = i]]

\* every hospitals table of at most n rows
Tables(n, profiles) == UNION {{Numbered(rows) : rows \in [1..k -> profiles]} : k \in 0..n}

\* config.Config with no variable set in the environment
DefaultConfig ==
    [SEARCH_RADIUS_KM |-> 15000, WEIGHT_FACILITY |-> 30, WEIGHT_DISTANCE |-> 20,
     WEIGHT_BEDS |-> 20, WEIGHT_SPECIALIST |-> 15, WEIGHT_PREDICTION |-> 10,
     WEIGHT_HISTORY |-> 5, AVG_AMBULANCE_SPEED_KMH |-> 40]

\* config.Config under the environments tried: nothing set, or
\* WEIGHT_FACILITY=0.50, or WEIGHT_HISTORY=0, or SEARCH_RADIUS_KM=0
Environments ==
    {DefaultConfig, [DefaultConfig EXCEPT !.WEIGHT_FACILITY = 50],
     [DefaultConfig EXCEPT !.WEIGHT_HISTORY = 0],
     [DefaultConfig EXCEPT !.SEARCH_RADIUS_KM = 0]}

\* no response yet
NoResponse == [op |-> "none", args |-> <<>>, status |-> 0, emits |-> {}, body |-> <<>>]

\* what a handler answers: its name and arguments, the HTTP status, the
\* events it emitted on the socket and what the body reports
Response(op, args, status, emits, body) ==
    [op |-> op, args |-> args, status |-> status, emits |-> emits, body |-> body]

(* ------------------------------- Init --------------------------------- *)

\* init_db and seed_ambulances: no request, every ambulance available
Init ==
    /\ sos = [r \in Reqs |-> NoRow]
    /\ ambulances = [a \in Ambs |->
           [status |-> "available", current_sos_id |-> NULL,
            latitude |-> (a - 1) % (MaxCoord + 1)]]
    /\ thr = [t \in Threads |-> Idle]
    /\ timers = {}
    /\ hospitals = Numbered([i \in 1..NumHospitals |-> NearCardiac])
    /\ Config = DefaultConfig
    /\ event_log = <<>>
    /\ sos_hospital_scores = <<>>
    /\ resp = NoResponse

(* ------------------------- intake: handle_sos -------------------------- *)

\* cur.lastrowid of an AUTOINCREMENT key: the first id not yet used
NextSosId == IF \E r \in Reqs : sos[r].status = "none"
             THEN CHOOSE r \in Reqs : sos[r].status = "none"
                                      /\ \A q \in Reqs : sos[q].status = "none" => r <= q
             ELSE NULL

\* database.create_sos_request: INSERT ... 'pending'
create_sos_request(s, sid, lat) ==
    [s EXCEPT ![sid] = [NoRow EXCEPT !.status = "pending", !.latitude = lat]]

\* input checks that look at the coordinates only
ValidSosCoordsOnly(lat, emergency_type) == lat # NoCoord

\* the input checks of app.handle_sos
ValidSos(lat, emergency_type) == lat # NoCoord /\ emergency_type \in EMERGENCY_REQUIREMENTS

\* app.handle_sos; ranked stands for get_best_hospitals(...)["all_scored"]
handle_sos(lat, emergency_type, ranked) ==
    /\ ValidSos(lat, emergency_type)
    /\ NextSosId # NULL
    /\ sos' = IF ranked = <<>>
              THEN create_sos_request(sos, NextSosId, lat)
              ELSE update_sos_hospitals(create_sos_request(sos, NextSosId, lat),
                       NextSosId, ranked[1], IF Len(ranked) > 1 THEN ranked[2] ELSE NULL)
    /\ UNCHANGED <<ambulances, thr, timers>>

\* handle_sos that answers an empty ranking as dispatch answers an empty fleet
handle_sosReplyUnavailable(lat, emergency_type, ranked) ==
    IF ~ValidSos(lat, emergency_type) THEN 400
    ELSE IF ranked = <<>> THEN 503 ELSE 200

\* the status code app.handle_sos answers with
handle_sosReply(lat, emergency_type, ranked) ==
    IF ~ValidSos(lat, emergency_type) THEN 400
    ELSE IF ranked = <<>> THEN 404 ELSE 200

handle_sosEmits(lat, emergency_type, ranked) ==
    IF ValidSos(lat, emergency_type) /\ ranked # <<>>
    THEN {Event("new_sos", NextSosId, NULL)} ELSE {}

handle_sosLogs(lat, emergency_type, ranked) ==
    IF ValidSos(lat, emergency_type)
    THEN {LogRow(NextSosId, NULL, "request_created", "")} ELSE {}

(* --------------------- dispatch: assign_ambulance ---------------------- *)

\* app.assign_ambulance passes its checks and reaches update_sos_hospitals
AssignAdmitted(sos_id, hospital_id) ==
    sos_id # 0 /\ hospital_id # 0 /\ Exists(sos_id) /\ hospital_id \in Hospitals

\* app.assign_ambulance up to and including find_nearest_driver
AssignStart(t, sos_id, hospital_id) ==
    /\ FirstIdle(t)
    /\ AssignAdmitted(sos_id, hospital_id)
    /\ sos' = update_sos_hospitals(sos, sos_id, hospital_id, NULL)
    /\ thr' = IF find_nearest_driver(sos[sos_id].latitude) = NULL
              THEN thr
              ELSE [thr EXCEPT ![t] =
                       [Idle EXCEPT !.pc = "assign_commit", !.sos_id = sos_id,
                                    !.driver = find_nearest_driver(sos[sos_id].latitude)]]
    /\ UNCHANGED <<ambulances, timers>>

\* the early returns of app.assign_ambulance; 0 while the handler goes on
AssignStartReply(sos_id, hospital_id) ==
    IF sos_id = 0 \/ hospital_id = 0 THEN 400
    ELSE IF ~Exists(sos_id) \/ hospital_id \notin Hospitals THEN 404
    ELSE IF find_nearest_driver(sos[sos_id].latitude) = NULL THEN 503 ELSE 0

\* app.assign_ambulance from assign_ambulance_to_sos to the reply
AssignCommit(t) ==
    /\ thr[t].pc = "assign_commit"
    /\ sos' = AssignSos(sos, thr[t].sos_id, thr[t].driver)
    /\ ambulances' = AssignAmb(ambulances, thr[t].sos_id, thr[t].driver)
    /\ timers' = _schedule_reassignment(timers, thr[t].sos_id, thr[t].driver)
    /\ thr' = [thr EXCEPT ![t] = Idle]

AssignCommitReply(t) == 200

AssignCommitEmits(t) == {Event("driver_assignment", thr[t].sos_id, thr[t].driver)}

AssignCommitLogs(t) == {LogRow(thr[t].sos_id, thr[t].driver, "driver_assigned", "")}

(* ------------- accept timeout: _schedule_reassignment._check ----------- *)

\* the timer expires and _check reads the request: status is not 'assigned'
CheckSkip(sid, a) ==
    /\ <<sid, a>> \in timers
    /\ ~(Exists(sid) /\ sos[sid].status = "assigned")
    /\ timers' = timers \ {<<sid, a>>}
    /\ UNCHANGED <<sos, ambulances, thr>>

\* the timer expires and _check reads the request: status is 'assigned'
CheckRead(t, sid, a) ==
    /\ FirstIdle(t)
    /\ <<sid, a>> \in timers
    /\ Exists(sid) /\ sos[sid].status = "assigned"
    /\ timers' = timers \ {<<sid, a>>}
    /\ thr' = [thr EXCEPT ![t] =
           [Idle EXCEPT !.pc = "check_unassign", !.sos_id = sid,
                        !.old_amb = sos[sid].assigned_ambulance_id, !.armed_for = a]]
    /\ UNCHANGED <<sos, ambulances>>

\* _check: unassign_ambulance_from_sos(sos_id); when it raises, the timer
\* thread ends there with nothing written
CheckUnassign(t) ==
    /\ thr[t].pc = "check_unassign"
    /\ IF UnassignRaises(sos, thr[t].sos_id)
       THEN /\ thr' = [thr EXCEPT ![t] = Idle]
            /\ UNCHANGED <<sos, ambulances>>
       ELSE /\ ambulances' = ReleaseAmb(ambulances, LinkedAmb(sos, thr[t].sos_id))
            /\ sos' = UnassignSos(sos, thr[t].sos_id)
            /\ thr' = [thr EXCEPT ![t].pc = "check_find"]
    /\ UNCHANGED timers

\* _check: get_sos_request again, then find_nearest_driver
CheckFind(t) ==
    /\ thr[t].pc = "check_find"
    /\ thr' = [thr EXCEPT ![t].pc = "check_finish",
                          ![t].driver = find_nearest_driver(sos[thr[t].sos_id].latitude)]
    /\ UNCHANGED <<sos, ambulances, timers>>

\* _check: if driver and driver["id"] != old_amb
Redispatch(t) == thr[t].driver # NULL /\ thr[t].driver # thr[t].old_amb

\* _check: the branch on Redispatch; no timer is armed on either side
CheckFinish(t) ==
    /\ thr[t].pc = "check_finish"
    /\ sos' = IF Redispatch(t) THEN AssignSos(sos, thr[t].sos_id, thr[t].driver) ELSE sos
    /\ ambulances' = IF Redispatch(t)
                     THEN AssignAmb(ambulances, thr[t].sos_id, thr[t].driver)
                     ELSE ambulances
    /\ thr' = [thr EXCEPT ![t] = Idle]
    /\ UNCHANGED timers

CheckFinishEmits(t) ==
    IF Redispatch(t)
    THEN {Event("driver_reassigned", thr[t].sos_id, thr[t].driver)}
    ELSE {Event("no_driver_available", thr[t].sos_id, NULL)}

\* what a step of _check emits: only its last branch emits
CheckStepEmits(t) == IF thr[t].pc = "check_finish" THEN CheckFinishEmits(t) ELSE {}

CheckFinishLogs(t) ==
    IF Redispatch(t)
    THEN {LogRow(thr[t].sos_id, thr[t].driver, "driver_assigned", ""),
          LogRow(thr[t].sos_id, thr[t].driver, "driver_reassigned", "timeout")}
    ELSE {}

(* ------------------ administration: admin_reassign --------------------- *)

\* app.admin_reassign up to and including get_sos_request; new_amb_id 0
\* asks for the nearest driver
AdminStart(t, sos_id, new_amb_id) ==
    /\ FirstIdle(t)
    /\ sos_id # 0
    /\ Exists(sos_id)
    /\ thr' = [thr EXCEPT ![t] =
           [Idle EXCEPT !.pc = "admin_unassign", !.sos_id = sos_id, !.driver = new_amb_id]]
    /\ UNCHANGED <<sos, ambulances, timers>>

AdminStartReply(sos_id, new_amb_id) ==
    IF sos_id = 0 THEN 400 ELSE IF ~Exists(sos_id) THEN 404 ELSE 0

\* app.admin_reassign: unassign_ambulance_from_sos(sos_id); when it raises,
\* the handler ends there with nothing written
AdminUnassign(t) ==
    /\ thr[t].pc = "admin_unassign"
    /\ IF UnassignRaises(sos, thr[t].sos_id)
       THEN /\ thr' = [thr EXCEPT ![t] = Idle]
            /\ UNCHANGED <<sos, ambulances>>
       ELSE /\ ambulances' = ReleaseAmb(ambulances, LinkedAmb(sos, thr[t].sos_id))
            /\ sos' = UnassignSos(sos, thr[t].sos_id)
            /\ thr' = [thr EXCEPT ![t].pc = "admin_find"]
    /\ UNCHANGED timers

\* the unhandled exception is answered 500; 0 while the handler goes on
AdminUnassignReply(t) == IF UnassignRaises(sos, thr[t].sos_id) THEN 500 ELSE 0

\* app.admin_reassign: get_ambulance_by_id(new_amb_id), or find_nearest_driver
AdminFind(t) ==
    /\ thr[t].pc = "admin_find"
    /\ thr' = IF thr[t].driver # 0
              THEN IF thr[t].driver \notin Ambs
                   THEN [thr EXCEPT ![t] = Idle]
                   ELSE [thr EXCEPT ![t].pc = "admin_commit"]
              ELSE IF find_nearest_driver(sos[thr[t].sos_id].latitude) = NULL
                   THEN [thr EXCEPT ![t] = Idle]
                   ELSE [thr EXCEPT ![t].pc = "admin_commit",
                                    ![t].driver = find_nearest_driver(sos[thr[t].sos_id].latitude)]
    /\ UNCHANGED <<sos, ambulances, timers>>

AdminFindReply(t) ==
    IF thr[t].driver # 0
    THEN IF thr[t].driver \notin Ambs THEN 404 ELSE 0
    ELSE IF find_nearest_driver(sos[thr[t].sos_id].latitude) = NULL THEN 503 ELSE 0

\* app.admin_reassign from assign_ambulance_to_sos to the reply; no timer is armed
AdminCommit(t) ==
    /\ thr[t].pc = "admin_commit"
    /\ sos' = AssignSos(sos, thr[t].sos_id, thr[t].driver)
    /\ ambulances' = AssignAmb(ambulances, thr[t].sos_id, thr[t].driver)
    /\ thr' = [thr EXCEPT ![t] = Idle]
    /\ UNCHANGED timers

AdminCommitReply(t) == 200

AdminCommitEmits(t) == {Event("driver_reassigned", thr[t].sos_id, thr[t].driver)}

AdminCommitLogs(t) ==
    {LogRow(thr[t].sos_id, thr[t].driver, "driver_assigned", ""),
     LogRow(thr[t].sos_id, thr[t].driver, "admin_reassigned", "")}

(* --------------------------- driver actions ---------------------------- *)

\* every driver handler: 400 without sos_id, else {"success": True}, 200
DriverReply(amb_id, sos_id) == IF sos_id = 0 THEN 400 ELSE 200

\* app.driver_accept
driver_accept(amb_id, sos_id) ==
    /\ sos_id # 0
    /\ sos' = accept_sos_request(sos, sos_id, amb_id)
    /\ UNCHANGED <<ambulances, thr, timers>>

driver_acceptEmits(amb_id, sos_id) ==
    IF sos_id = 0 THEN {} ELSE {Event("driver_accepted", sos_id, amb_id)}

driver_acceptLogs(amb_id, sos_id) ==
    IF sos_id = 0 THEN {} ELSE {LogRow(sos_id, amb_id, "driver_accepted", "")}

\* app.driver_enroute
driver_enroute(amb_id, sos_id) ==
    /\ sos_id # 0
    /\ sos' = enroute_sos_request(sos, sos_id, amb_id)
    /\ UNCHANGED <<ambulances, thr, timers>>

driver_enrouteLogs(amb_id, sos_id) ==
    IF sos_id = 0 THEN {} ELSE {LogRow(sos_id, amb_id, "status_changed", "enroute")}

\* app.driver_arrived
driver_arrived(amb_id, sos_id) ==
    /\ sos_id # 0
    /\ sos' = arrived_sos_request(sos, sos_id, amb_id)
    /\ UNCHANGED <<ambulances, thr, timers>>

driver_arrivedLogs(amb_id, sos_id) ==
    IF sos_id = 0 THEN {} ELSE {LogRow(sos_id, amb_id, "status_changed", "arrived")}

\* app.driver_complete: complete_sos_request(sos_id) takes no ambulance id
driver_complete(amb_id, sos_id) ==
    /\ sos_id # 0
    /\ ambulances' = ReleaseAmb(ambulances, LinkedAmb(sos, sos_id))
    /\ sos' = CompleteSos(sos, sos_id)
    /\ UNCHANGED <<thr, timers>>

driver_completeLogs(amb_id, sos_id) ==
    IF sos_id = 0 THEN {}
    ELSE {LogRow(sos_id, LinkedAmb(sos, sos_id), "trip_completed", "")}

\* app.driver_update_location with database.update_ambulance_location
driver_update_location(amb_id, lat) ==
    /\ amb_id \in Ambs
    /\ ambulances' = [ambulances EXCEPT ![amb_id].latitude = lat]
    /\ UNCHANGED <<sos, thr, timers>>

(* ---------------------------- specification ---------------------------- *)

\* a step of the specifications that leave the hospitals table, the
\* configuration and the journal out
Quiet == UNCHANGED <<catalog, journal>>

\* the later steps of a dispatch or an accept-timeout check in flight
Continue ==
    \/ \E t \in Threads : AssignCommit(t) /\ Quiet
    \/ \E t \in Threads : CheckUnassign(t) /\ Quiet

\* the steps of _check after an unassign that did not raise
CheckContinue ==
    \/ \E t \in Threads : CheckFind(t) /\ Quiet
    \/ \E t \in Threads : CheckFinish(t) /\ Quiet

\* the later steps of an admin reassignment in flight
AdminContinue ==
    \/ \E t \in Threads : AdminUnassign(t) /\ Quiet
    \/ \E t \in Threads : AdminFind(t) /\ Quiet
    \/ \E t \in Threads : AdminCommit(t) /\ Quiet

Next ==
    \/ \E lat \in {PatientLat, NoCoord}, ty \in TypeArgs, ranked \in DistinctRanked :
           handle_sos(lat, ty, ranked) /\ Quiet
    \/ \E t \in Threads, sid \in ReqArgs, hid \in HospitalArgs : AssignStart(t, sid, hid) /\ Quiet
    \/ \E sid \in Reqs, a \in Ambs : CheckSkip(sid, a) /\ Quiet
    \/ \E t \in Threads, sid \in Reqs, a \in Ambs : CheckRead(t, sid, a) /\ Quiet
    \/ \E t \in Threads, sid \in ReqArgs, a \in 0..(NumAmbs + 1) : AdminStart(t, sid, a) /\ Quiet
    \/ \E a \in AmbArgs, sid \in ReqArgs : driver_accept(a, sid) /\ Quiet
    \/ \E a \in AmbArgs, sid \in ReqArgs : driver_enroute(a, sid) /\ Quiet
    \/ \E a \in AmbArgs, sid \in ReqArgs : driver_arrived(a, sid) /\ Quiet
    \/ \E a \in AmbArgs, sid \in ReqArgs : driver_complete(a, sid) /\ Quiet
    \/ \E a \in AmbArgs, lat \in Coords : driver_update_location(a, lat) /\ Quiet
    \/ Continue
    \/ CheckContinue
    \/ AdminContinue

\* every handler and every check interleaves with the others, one database
\* transaction at a time (async_mode="threading", threading.Timer)
Spec == Init /\ [][Next]_vars

AllIdle == \A t \in Threads : thr[t].pc = "idle"

\* the serial schedules of Spec with the ambulances standing still: a
\* handler or check that has started runs to its end before another starts.
\* The steps of CheckContinue are left out: no schedule enables them, since
\* _check unassigns a request that has an ambulance.
SerialNext ==
    \/ \E lat \in {PatientLat, NoCoord}, ty \in TypeArgs, ranked \in DistinctRanked :
           AllIdle /\ handle_sos(lat, ty, ranked) /\ Quiet
    \/ \E t \in Threads, sid \in ReqArgs, hid \in HospitalArgs :
           AllIdle /\ AssignStart(t, sid, hid) /\ Quiet
    \/ \E sid \in Reqs, a \in Ambs : AllIdle /\ CheckSkip(sid, a) /\ Quiet
    \/ \E t \in Threads, sid \in Reqs, a \in Ambs : AllIdle /\ CheckRead(t, sid, a) /\ Quiet
    \/ \E t \in Threads, sid \in ReqArgs, a \in 0..(NumAmbs + 1) :
           AllIdle /\ AdminStart(t, sid, a) /\ Quiet
    \/ \E a \in AmbArgs, sid \in ReqArgs : AllIdle /\ driver_accept(a, sid) /\ Quiet
    \/ \E a \in AmbArgs, sid \in ReqArgs : AllIdle /\ driver_enroute(a, sid) /\ Quiet
    \/ \E a \in AmbArgs, sid \in ReqArgs : AllIdle /\ driver_arrived(a, sid) /\ Quiet
    \/ \E a \in AmbArgs, sid \in ReqArgs : AllIdle /\ driver_complete(a, sid) /\ Quiet
    \/ Continue
    \/ AdminContinue

SpecSerial == Init /\ [][SerialNext]_vars

\* the schedules of Spec that interleave dispatch, the accept-timeout check
\* and the driver's accept, with the ambulances standing still
RaceNext ==
    \/ \E ranked \in DistinctRanked : handle_sos(PatientLat, "cardiac", ranked) /\ Quiet
    \/ \E t \in Threads, sid \in Reqs, hid \in Hospitals : AssignStart(t, sid, hid) /\ Quiet
    \/ \E sid \in Reqs, a \in Ambs : CheckSkip(sid, a) /\ Quiet
    \/ \E t \in Threads, sid \in Reqs, a \in Ambs : CheckRead(t, sid, a) /\ Quiet
    \/ \E a \in Ambs, sid \in Reqs : driver_accept(a, sid) /\ Quiet
    \/ Continue

SpecRace == Init /\ [][RaceNext]_vars

\* the steps a timer thread takes: threading.Timer runs _check once its
\* delay has passed, and the thread runs on to the end of _check
TimerSteps ==
    \/ \E sid \in Reqs, a \in Ambs : CheckSkip(sid, a) /\ Quiet
    \/ \E t \in Threads, sid \in Reqs, a \in Ambs : CheckRead(t, sid, a) /\ Quiet
    \/ \E t \in Threads : CheckUnassign(t) /\ Quiet

\* SpecRace in which every armed timer fires and every handler and check in
\* flight runs on to its end
SpecRaceFair == SpecRace /\ WF_vars(TimerSteps) /\ WF_vars(Continue)

\* the schedules of Spec in which the ambulances move and are claimed and
\* released one handler at a time: the pools find_nearest_driver is given
MatchNext ==
    \/ \E ranked \in DistinctRanked : AllIdle /\ handle_sos(PatientLat, "cardiac", ranked) /\ Quiet
    \/ \E t \in Threads, sid \in Reqs, hid \in Hospitals : AllIdle /\ AssignStart(t, sid, hid) /\ Quiet
    \/ \E t \in Threads : AssignCommit(t) /\ Quiet
    \/ \E a \in Ambs, sid \in Reqs : AllIdle /\ driver_complete(a, sid) /\ Quiet
    \/ \E a \in Ambs, lat \in Coords : AllIdle /\ driver_update_location(a, lat) /\ Quiet

SpecMatch == Init /\ [][MatchNext]_vars


(* ------------------------- scoring: scoring.py ------------------------- *)

Min(a, b) == IF a < b THEN a ELSE b

Max(a, b) == IF a > b THEN a ELSE b

\* round(x, n) where step is 10^-n in the unit of x: the nearest multiple
\* of step, a tie going to the even multiple
Round(x, step) ==
    LET q == x \div step
        r == x % step
    IN  IF 2 * r < step THEN q * step
        ELSE IF 2 * r > step THEN (q + 1) * step
        ELSE IF q % 2 = 0 THEN q * step ELSE (q + 1) * step

\* str.lower on the tags that occur
lower(s) ==
    CASE s = "ICU" -> "icu"
      [] s = "Cath Lab" -> "cath lab"
      [] s = "Emergency Ward" -> "emergency ward"
      [] s = "MRI" -> "mri"
      [] s = "Operation Theatre" -> "operation theatre"
      [] s = "Ventilator" -> "ventilator"
      [] s = "Blood Bank" -> "blood bank"
      [] s = "Cardiologist" -> "cardiologist"
      [] s = "General Physician" -> "general physician"
      [] s = "Cardiac" -> "cardiac"
      [] s = "General" -> "general"
      [] OTHER -> s

\* EMERGENCY_REQUIREMENTS.get(emergency_type, EMERGENCY_REQUIREMENTS["general"])
Requirements(emergency_type) ==
    IF emergency_type = "cardiac"
    THEN [facilities |-> <<"ICU", "Cath Lab", "Emergency Ward">>,
          specialists |-> <<"Cardiologist">>,
          nice_to_have |-> <<"MRI", "Operation Theatre", "Ventilator">>]
    ELSE [facilities |-> <<"Emergency Ward">>,
          specialists |-> <<"General Physician">>,
          nice_to_have |-> <<"ICU", "Blood Bank">>]

\* sum(1 for f in wanted if f.lower() in {x.lower() for x in have})
Matched(wanted, have) ==
    Cardinality({i \in 1..Len(wanted) : lower(wanted[i]) \in {lower(x) : x \in have}})

\* scoring.haversine on one meridian, in metres
haversine(lat1, lat2) == Abs(lat2 - lat1)

\* scoring.estimate_eta with speed_kmh=None, in 1/1000 min
estimate_eta(distance_km) ==
    LET speed == IF Config.AVG_AMBULANCE_SPEED_KMH <= 0 THEN 40
                 ELSE Config.AVG_AMBULANCE_SPEED_KMH
    IN  (distance_km * 60) \div speed

\* scoring._calc_facility_score
_calc_facility_score(hospital, requirements) ==
    LET required == requirements.facilities
        nice_to_have == requirements.nice_to_have
        required_score == (One * Matched(required, hospital.facilities)) \div Len(required)
        nice_score == IF Len(nice_to_have) > 0
                      THEN (One * Matched(nice_to_have, hospital.facilities))
                               \div Len(nice_to_have)
                      ELSE One \div 2
    IN  IF Len(required) = 0 THEN One \div 2
        ELSE (8 * required_score) \div 10 + (2 * nice_score) \div 10

\* scoring._calc_distance_score with max_radius_km=None
_calc_distance_score(distance_km) ==
    LET max_r == IF Config.SEARCH_RADIUS_KM <= 0 THEN 15000 ELSE Config.SEARCH_RADIUS_KM
        score == One - Min((One \div max_r) * distance_km, One)
    IN  Max(score, 0)

\* _calc_bed_score without the neutral score of a hospital with no bed counts
_calc_bed_scoreNoNeutral(hospital) ==
    LET icu_score == IF hospital.icu_beds > 0
                     THEN (One * hospital.available_icu_beds) \div hospital.icu_beds
                     ELSE One \div 2
        gen_score == IF hospital.total_beds > 0
                     THEN (One * hospital.available_general_beds) \div hospital.total_beds
                     ELSE One \div 2
        load_bonus == One - (One \div 100) * hospital.load_percentage
    IN  icu_score \div 2 + gen_score \div 4 + load_bonus \div 4

\* scoring._calc_bed_score
_calc_bed_score(hospital) ==
    LET icu_score == IF hospital.icu_beds > 0
                     THEN (One * hospital.available_icu_beds) \div hospital.icu_beds
                     ELSE One \div 2
        gen_score == IF hospital.total_beds > 0
                     THEN (One * hospital.available_general_beds) \div hospital.total_beds
                     ELSE One \div 2
        load_bonus == One - (One \div 100) * hospital.load_percentage
    IN  IF hospital.icu_beds <= 0 /\ hospital.total_beds <= 0 THEN One \div 2
        ELSE icu_score \div 2 + gen_score \div 4 + load_bonus \div 4

\* scoring._calc_specialist_score
_calc_specialist_score(hospital, requirements) ==
    LET needed_specialists == requirements.specialists
    IN  IF Len(needed_specialists) = 0 THEN One \div 2
        ELSE (One * Matched(needed_specialists, hospital.doctors_on_duty))
                 \div Len(needed_specialists)

\* scoring._calc_prediction_score: load * 0.05 * eta_minutes / 60, which is
\* load_percentage * eta / 20 in One-ths
_calc_prediction_score(hospital, eta_minutes) ==
    Max(0, _calc_bed_score(hospital) - (hospital.load_percentage * eta_minutes) \div 20)

\* scoring._calc_history_score
_calc_history_score(hospital) == hospital.historical_success_rate

\* the six unrounded component scores of scoring.score_hospital
Components(hospital, user_lat, emergency_type) ==
    LET requirements == Requirements(emergency_type)
        distance_km == haversine(user_lat, hospital.latitude)
    IN  [facility |-> _calc_facility_score(hospital, requirements),
         distance |-> _calc_distance_score(distance_km),
         bed |-> _calc_bed_score(hospital),
         specialist |-> _calc_specialist_score(hospital, requirements),
         prediction |-> _calc_prediction_score(hospital, estimate_eta(distance_km)),
         history |-> _calc_history_score(hospital)]

\* the weighted composite of scoring.score_hospital before the bonus, in
\* (100 * One)-ths
WeightedTotal(c) ==
      Config.WEIGHT_FACILITY * c.facility
    + Config.WEIGHT_DISTANCE * c.distance
    + Config.WEIGHT_BEDS * c.bed
    + Config.WEIGHT_SPECIALIST * c.specialist
    + Config.WEIGHT_PREDICTION * c.prediction
    + Config.WEIGHT_HISTORY * c.history

\* emergency_type.lower() in [s.lower() for s in specializations]
Specialized(hospital, emergency_type) ==
    lower(emergency_type) \in {lower(s) : s \in hospital.specializations}

\* the total of scoring.score_hospital after the bonus, unrounded
BonusTotal(hospital, c, emergency_type) ==
    IF Specialized(hospital, emergency_type)
    THEN Min(WeightedTotal(c) + WeightedTotal(c) \div 10, 100 * One)
    ELSE WeightedTotal(c)

\* scoring.score_hospital
score_hospital(hospital, user_lat, emergency_type) ==
    LET c == Components(hospital, user_lat, emergency_type)
        distance_km == haversine(user_lat, hospital.latitude)
    IN  [hospital |-> hospital,
         scores |-> [k \in DOMAIN c |-> Round(c[k], One \div 1000)],
         total_score |-> Round(BonusTotal(hospital, c, emergency_type), One \div 100),
         distance_km |-> Round(distance_km, 10),
         eta_minutes |-> Round(estimate_eta(distance_km), 100)]

\* li.sort(key=total_score, reverse=True) that puts a candidate before the
\* ones of equal score
RECURSIVE SortedTiesReversed(_)
SortedTiesReversed(scored) ==
    IF Len(scored) <= 1 THEN scored
    ELSE LET rest == SortedTiesReversed(SubSeq(scored, 1, Len(scored) - 1))
             x == scored[Len(scored)]
             ahead == SelectSeq(rest, LAMBDA y : y.total_score > x.total_score)
             behind == SelectSeq(rest, LAMBDA y : y.total_score <= x.total_score)
         IN  ahead \o <<x>> \o behind

\* list.sort(key=lambda x: x["total_score"], reverse=True): descending, and
\* candidates of equal score keep the order they had
RECURSIVE Sorted(_)
Sorted(scored) ==
    IF Len(scored) <= 1 THEN scored
    ELSE LET rest == Sorted(SubSeq(scored, 1, Len(scored) - 1))
             x == scored[Len(scored)]
             ahead == SelectSeq(rest, LAMBDA y : y.total_score >= x.total_score)
             behind == SelectSeq(rest, LAMBDA y : y.total_score < x.total_score)
         IN  ahead \o <<x>> \o behind

\* the filter of scoring.rank_hospitals: result["distance_km"] <= radius
Within(result, radius) == result.distance_km <= radius

\* scoring.rank_hospitals; max_radius_km 0 stands for None
rank_hospitals(hs, user_lat, emergency_type, max_radius_km) ==
    LET radius == IF max_radius_km # 0 THEN max_radius_km ELSE Config.SEARCH_RADIUS_KM
        results == [i \in 1..Len(hs) |-> score_hospital(hs[i], user_lat, emergency_type)]
    IN  Sorted(SelectSeq(results, LAMBDA r : Within(r, radius)))

\* None in place of a scored hospital
NoScored == [hospital |-> [id |-> NULL], total_score |-> 0]

\* scoring.get_best_hospitals
get_best_hospitals(hs, user_lat, emergency_type, max_radius_km) ==
    LET ranked == rank_hospitals(hs, user_lat, emergency_type, max_radius_km)
    IN  [best |-> IF Len(ranked) > 0 THEN ranked[1] ELSE NoScored,
         backup |-> IF Len(ranked) > 1 THEN ranked[2] ELSE NoScored,
         all_scored |-> ranked,
         total_candidates |-> Len(ranked),
         emergency_type |-> emergency_type]

(* ----------------------- specification: scoring ------------------------ *)

\* the radius arguments tried: None (or 0), -1 km, 5 km, 15 km
RadiusArgs == {0, -1000, 5000, 15000}

\* the emergency types scored
ScoredTypes == {"cardiac", "general"}

\* one call of get_best_hospitals on the hospitals table
Recommend(emergency_type, max_radius_km) ==
    /\ resp' = Response("get_best_hospitals", <<emergency_type, max_radius_km>>, 0, {},
                        get_best_hospitals(hospitals, PatientLat, emergency_type,
                                           max_radius_km))
    /\ UNCHANGED <<sos, ambulances, thr, timers, catalog, event_log, sos_hospital_scores>>

\* any hospitals table of at most MaxHospitals rows, any of the environments
InitScore ==
    /\ sos = [r \in Reqs |-> NoRow]
    /\ ambulances = [a \in Ambs |->
           [status |-> "available", current_sos_id |-> NULL,
            latitude |-> (a - 1) % (MaxCoord + 1)]]
    /\ thr = [t \in Threads |-> Idle]
    /\ timers = {}
    /\ hospitals \in Tables(MaxHospitals, Profiles)
    /\ Config \in Environments
    /\ event_log = <<>>
    /\ sos_hospital_scores = <<>>
    /\ resp = NoResponse

ScoreNext ==
    \E ty \in ScoredTypes, r \in RadiusArgs : Recommend(ty, r)

\* the scoring engine on its own: every table, every environment, every call
SpecScore == InitScore /\ [][ScoreNext]_vars

(* ------------------- the handlers with their journal -------------------- *)

\* the rows a step writes, in a sequence; a step writes at most one row
\* unless stated otherwise
RowsOf(rows) == IF rows = {} THEN <<>> ELSE <<CHOOSE x \in rows : TRUE>>

\* log_event that replaces the last row of event_log
log_eventOverwrite(log, rows) ==
    IF Len(log) > 0 /\ Len(rows) > 0 THEN SubSeq(log, 1, Len(log) - 1) \o rows
    ELSE log \o rows

\* database.log_event, once for each of rows: INSERT INTO event_log
log_event(log, rows) == log \o rows

\* event_log has room for the rows: the bound of the journal
Room(rows) == Len(event_log) + Len(rows) <= MaxEvents

\* save_hospital_scores that writes the best candidate only
save_hospital_scoresBestOnly(table, sid, scored) ==
    table \o [i \in 1..Min(Len(scored), 1) |->
                 [sos_id |-> sid, hospital_id |-> scored[i].hospital.id,
                  scores |-> scored[i].scores, total_score |-> scored[i].total_score,
                  distance_km |-> scored[i].distance_km,
                  eta_minutes |-> scored[i].eta_minutes]]

\* database.save_hospital_scores: one INSERT for each scored hospital
save_hospital_scores(table, sid, scored) ==
    table \o [i \in 1..Len(scored) |->
                 [sos_id |-> sid, hospital_id |-> scored[i].hospital.id,
                  scores |-> scored[i].scores, total_score |-> scored[i].total_score,
                  distance_km |-> scored[i].distance_km,
                  eta_minutes |-> scored[i].eta_minutes]]

\* result["best"]["hospital"]["id"] and result["backup"]["hospital"]["id"]
\* of app.handle_sos, as far as they are not None
BestIds(result) ==
    IF result.best = NoScored THEN <<>>
    ELSE IF result.backup = NoScored THEN <<result.best.hospital.id>>
    ELSE <<result.best.hospital.id, result.backup.hospital.id>>

\* a step that writes nothing and answers
Answer(op, status) ==
    /\ resp' = Response(op, <<>>, status, {}, <<>>)
    /\ UNCHANGED <<sos, ambulances, thr, timers, catalog, event_log, sos_hospital_scores>>

\* app.handle_sos, the whole handler
handle_sosCall(lat, emergency_type) ==
    IF ~ValidSos(lat, emergency_type)
    THEN Answer("handle_sos", 400)
    ELSE LET result == get_best_hospitals(hospitals, lat, emergency_type, 0)
             ranked == BestIds(result)
         IN  /\ Room(RowsOf(handle_sosLogs(lat, emergency_type, ranked)))
             /\ handle_sos(lat, emergency_type, ranked)
             /\ event_log' = log_event(event_log,
                                 RowsOf(handle_sosLogs(lat, emergency_type, ranked)))
             /\ sos_hospital_scores' =
                    IF result.best = NoScored THEN sos_hospital_scores
                    ELSE save_hospital_scores(sos_hospital_scores, NextSosId,
                                              result.all_scored)
             /\ resp' = Response("handle_sos", <<>>,
                                 handle_sosReply(lat, emergency_type, ranked),
                                 handle_sosEmits(lat, emergency_type, ranked),
                                 [sos_id |-> NextSosId,
                                  total_hospitals_evaluated |-> result.total_candidates])
             /\ UNCHANGED catalog

\* app.assign_ambulance up to find_nearest_driver, with its early returns
assign_ambulanceCall(t, sos_id, hospital_id) ==
    IF ~AssignAdmitted(sos_id, hospital_id)
    THEN FirstIdle(t)
         /\ Answer("assign_ambulance",
                   AssignStartReply(sos_id, hospital_id))
    ELSE /\ AssignStart(t, sos_id, hospital_id)
         /\ resp' = IF AssignStartReply(sos_id, hospital_id) = 0 THEN resp
                    ELSE Response("assign_ambulance", <<>>,
                                  AssignStartReply(sos_id, hospital_id), {}, <<>>)
         /\ UNCHANGED <<catalog, event_log, sos_hospital_scores>>

\* app.assign_ambulance from assign_ambulance_to_sos on
assign_ambulanceDone(t) ==
    /\ Room(RowsOf(AssignCommitLogs(t)))
    /\ AssignCommit(t)
    /\ event_log' = log_event(event_log, RowsOf(AssignCommitLogs(t)))
    /\ resp' = Response("assign_ambulance", <<>>, AssignCommitReply(t),
                        AssignCommitEmits(t), [ambulance |-> thr[t].driver])
    /\ UNCHANGED <<catalog, sos_hospital_scores>>

\* a driver handler: the status_changed or trip_completed event of the others
DriverEmits(type, amb_id, sos_id) == {Event(type, sos_id, amb_id)}

\* what a driver handler that got a sos_id writes to the journal and answers
DriverCall(op, rows, emits, amb_id, sos_id) ==
    /\ Room(RowsOf(rows))
    /\ event_log' = log_event(event_log, RowsOf(rows))
    /\ resp' = Response(op, <<>>, DriverReply(amb_id, sos_id), emits, <<>>)
    /\ UNCHANGED <<catalog, sos_hospital_scores>>

\* app.driver_accept, the whole handler
driver_acceptCall(a, sid) ==
    IF sid = 0
    THEN Answer("driver_accept", DriverReply(a, sid))
    ELSE /\ driver_accept(a, sid)
         /\ DriverCall("driver_accept", driver_acceptLogs(a, sid),
                       driver_acceptEmits(a, sid), a, sid)

\* app.driver_enroute, the whole handler
driver_enrouteCall(a, sid) ==
    IF sid = 0
    THEN Answer("driver_enroute", DriverReply(a, sid))
    ELSE /\ driver_enroute(a, sid)
         /\ DriverCall("driver_enroute", driver_enrouteLogs(a, sid),
                       DriverEmits("status_changed", a, sid), a, sid)

\* app.driver_arrived, the whole handler
driver_arrivedCall(a, sid) ==
    IF sid = 0
    THEN Answer("driver_arrived", DriverReply(a, sid))
    ELSE /\ driver_arrived(a, sid)
         /\ DriverCall("driver_arrived", driver_arrivedLogs(a, sid),
                       DriverEmits("status_changed", a, sid), a, sid)

\* app.driver_complete, the whole handler
driver_completeCall(a, sid) ==
    IF sid = 0
    THEN Answer("driver_complete", DriverReply(a, sid))
    ELSE /\ driver_complete(a, sid)
         /\ DriverCall("driver_complete", driver_completeLogs(a, sid),
                       DriverEmits("trip_completed", a, sid), a, sid)

\* app.admin_reassign up to get_sos_request, with its early returns
admin_reassignCall(t, sos_id, new_amb_id) ==
    IF AdminStartReply(sos_id, new_amb_id) # 0
    THEN FirstIdle(t)
         /\ Answer("admin_reassign",
                   AdminStartReply(sos_id, new_amb_id))
    ELSE AdminStart(t, sos_id, new_amb_id) /\ UNCHANGED <<catalog, journal>>

\* app.admin_reassign: unassign_ambulance_from_sos
admin_reassignUnassign(t) ==
    /\ AdminUnassign(t)
    /\ resp' = IF AdminUnassignReply(t) = 0 THEN resp
               ELSE Response("admin_reassign", <<>>,
                             AdminUnassignReply(t), {}, <<>>)
    /\ UNCHANGED <<catalog, event_log, sos_hospital_scores>>

\* app.admin_reassign: the ambulance named, or the nearest one
admin_reassignFind(t) ==
    /\ AdminFind(t)
    /\ resp' = IF AdminFindReply(t) = 0 THEN resp
               ELSE Response("admin_reassign", <<>>,
                             AdminFindReply(t), {}, <<>>)
    /\ UNCHANGED <<catalog, event_log, sos_hospital_scores>>

\* the rows of app.admin_reassign in the order it writes them
AdminCommitRows(t) ==
    <<LogRow(thr[t].sos_id, thr[t].driver, "driver_assigned", ""),
      LogRow(thr[t].sos_id, thr[t].driver, "admin_reassigned", "")>>

\* app.admin_reassign from assign_ambulance_to_sos on
admin_reassignDone(t) ==
    /\ Room(AdminCommitRows(t))
    /\ AdminCommit(t)
    /\ event_log' = log_event(event_log, AdminCommitRows(t))
    /\ resp' = Response("admin_reassign", <<>>,
                        AdminCommitReply(t), AdminCommitEmits(t), <<>>)
    /\ UNCHANGED <<catalog, sos_hospital_scores>>

(* ----------------------- specification: journal ------------------------ *)

\* the i-th row of the hospitals table: out of range, in range without
\* cardiac care, in range with it, and so on in turn
SeedRow(i) == IF i % 3 = 1 THEN Far ELSE IF i % 3 = 2 THEN MidGeneral ELSE NearCardiac

\* the hospitals table once seed_hospitals has inserted its first k rows
Seeded(k) == Numbered([i \in 1..k |-> SeedRow(i)])

\* init_db, seed_ambulances and a hospitals table of at most MaxHospitals rows
InitJournal ==
    /\ sos = [r \in Reqs |-> NoRow]
    /\ ambulances = [a \in Ambs |->
           [status |-> "available", current_sos_id |-> NULL,
            latitude |-> (a - 1) % (MaxCoord + 1)]]
    /\ thr = [t \in Threads |-> Idle]
    /\ timers = {}
    /\ hospitals \in {Seeded(k) : k \in 0..MaxHospitals}
    /\ Config = DefaultConfig
    /\ event_log = <<>>
    /\ sos_hospital_scores = <<>>
    /\ resp = NoResponse

\* the serial schedules of the handlers and checks, each step with what it
\* writes to event_log and sos_hospital_scores and with what it answers; one
\* call runs at a time, so worker thread 1 serves every call, and the driver
\* calls name the ambulances of the fleet
JournalNext ==
    \/ \E lat \in {PatientLat, NoCoord}, ty \in TypeArgs :
           AllIdle /\ handle_sosCall(lat, ty)
    \/ \E sid \in ReqArgs, hid \in HospitalArgs :
           AllIdle /\ assign_ambulanceCall(1, sid, hid)
    \/ \E t \in Threads : assign_ambulanceDone(t)
    \/ \E sid \in Reqs, a \in Ambs : AllIdle /\ CheckSkip(sid, a) /\ Quiet
    \/ \E sid \in Reqs, a \in Ambs : AllIdle /\ CheckRead(1, sid, a) /\ Quiet
    \/ \E t \in Threads : CheckUnassign(t) /\ Quiet
    \/ \E sid \in ReqArgs, a \in 0..(NumAmbs + 1) :
           AllIdle /\ admin_reassignCall(1, sid, a)
    \/ \E t \in Threads : admin_reassignUnassign(t)
    \/ \E t \in Threads : admin_reassignFind(t)
    \/ \E t \in Threads : admin_reassignDone(t)
    \/ \E a \in Ambs, sid \in ReqArgs : AllIdle /\ driver_acceptCall(a, sid)
    \/ \E a \in Ambs, sid \in ReqArgs : AllIdle /\ driver_enrouteCall(a, sid)
    \/ \E a \in Ambs, sid \in ReqArgs : AllIdle /\ driver_arrivedCall(a, sid)
    \/ \E a \in Ambs, sid \in ReqArgs : AllIdle /\ driver_completeCall(a, sid)

SpecJournal == InitJournal /\ [][JournalNext]_vars
(* ------------------------------- claims -------------------------------- *)

\* the ambulances other than a that get_available_ambulances returns
OthersAvailable(a) == get_available_ambulances \ {a}

\* the edges of the request state machine, with the INSERT of a new row
AllowedEdges ==
    {<<"none", "pending">>, <<"pending", "assigned">>, <<"assigned", "accepted">>,
     <<"accepted", "enroute">>, <<"enroute", "arrived">>, <<"arrived", "completed">>,
     <<"assigned", "pending">>}
    \cup {<<s, "cancelled">> : s \in Active}

\* a step that runs assign_ambulance_to_sos for ambulance a
ClaimWrite(a) ==
    \E t \in Threads :
        /\ thr[t].driver = a
        /\ \/ AssignCommit(t)
           \/ AdminCommit(t)
           \/ CheckFinish(t) /\ Redispatch(t)

\* a step of an accept-timeout check that was armed for another ambulance
\* than the one it found on the request
StaleCheckStep(t) ==
    /\ thr[t].armed_for # thr[t].old_amb
    /\ CheckUnassign(t) \/ CheckFind(t) \/ CheckFinish(t)

\* the step that ends a check that found the request still assigned to the
\* ambulance it was armed for
TimeoutEnds(t) ==
    /\ thr[t].armed_for = thr[t].old_amb
    /\ CheckUnassign(t) \/ CheckFinish(t)
    /\ thr'[t].pc = "idle"

\* C1: in every reachable state no ambulance is the assigned ambulance of
\* two requests that are neither completed nor cancelled, whatever the
\* interleaving of the dispatches
C1_NoSharedAmbulance ==
    \A r1, r2 \in Reqs :
        (/\ r1 # r2
         /\ sos[r1].status \in Active
         /\ sos[r2].status \in Active
         /\ sos[r1].assigned_ambulance_id # NULL)
        => sos[r1].assigned_ambulance_id # sos[r2].assigned_ambulance_id

\* C2: every step that runs assign_ambulance_to_sos, from dispatch, from the
\* accept-timeout re-dispatch or from admin_reassign, claims an ambulance
\* whose status is 'available' in the state the write is applied to
C2_ClaimOnlyAvailable ==
    [][\A a \in Ambs : ClaimWrite(a) => ambulances[a].status = "available"]_vars

\* C3: every change of a request's status follows an edge of the request
\* state machine
C3_StatusFollowsEdges ==
    [][\A r \in Reqs :
          sos'[r].status # sos[r].status
          => <<sos[r].status, sos'[r].status>> \in AllowedEdges]_vars

\* C4: a driver action naming an ambulance that is not the one assigned to
\* the request is answered with a failure and leaves the requests and the
\* ambulances as they were
C4_WrongAmbulanceRejected ==
    [][\A a \in AmbArgs, sid \in Reqs :
          (/\ Exists(sid)
           /\ sos[sid].assigned_ambulance_id # a
           /\ \/ driver_accept(a, sid)
              \/ driver_enroute(a, sid)
              \/ driver_arrived(a, sid)
              \/ driver_complete(a, sid))
          => DriverReply(a, sid) # 200 /\ UNCHANGED <<sos, ambulances>>]_vars

\* C5: a driver action of the assigned ambulance that does not fit the
\* request's status (accept unless 'assigned', enroute unless 'accepted',
\* arrived unless 'enroute', complete unless 'arrived') leaves the requests
\* and the ambulances as they were
C5_WrongStatusRejected ==
    [][\A a \in Ambs, sid \in Reqs :
          (/\ RowMatches(sos, sid, a)
           /\ \/ driver_accept(a, sid) /\ sos[sid].status # "assigned"
              \/ driver_enroute(a, sid) /\ sos[sid].status # "accepted"
              \/ driver_arrived(a, sid) /\ sos[sid].status # "enroute"
              \/ driver_complete(a, sid) /\ sos[sid].status # "arrived")
          => UNCHANGED <<sos, ambulances>>]_vars

\* C6: no step changes the status, the assigned ambulance or the hospital
\* references of a request that is completed or cancelled
C6_TerminalImmutable ==
    [][\A r \in Reqs :
          sos[r].status \in Terminal
          => /\ sos'[r].status = sos[r].status
             /\ sos'[r].assigned_ambulance_id = sos[r].assigned_ambulance_id
             /\ sos'[r].selected_hospital_id = sos[r].selected_hospital_id
             /\ sos'[r].backup_hospital_id = sos[r].backup_hospital_id]_vars

C9_TimeoutRedispatches ==
    [][\A t \in Threads :
          (TimeoutEnds(t) /\ OthersAvailable(thr[t].old_amb) # {})
          => /\ sos'[thr[t].sos_id].status = "assigned"
             /\ sos'[thr[t].sos_id].assigned_ambulance_id \in Ambs \ {thr[t].old_amb}
             /\ \E e \in CheckStepEmits(t) : e.type = "driver_reassigned"]_vars

\* C10: a check that found the request still assigned to the ambulance A it
\* was armed for, with no other ambulance available, ends with the request
\* pending without an ambulance, A available without a request, and
\* no_driver_available emitted
C10_TimeoutNoDriver ==
    [][\A t \in Threads :
          (TimeoutEnds(t) /\ OthersAvailable(thr[t].old_amb) = {})
          => /\ sos'[thr[t].sos_id].status = "pending"
             /\ sos'[thr[t].sos_id].assigned_ambulance_id = NULL
             /\ ambulances'[thr[t].old_amb].status = "available"
             /\ ambulances'[thr[t].old_amb].current_sos_id = NULL
             /\ CheckStepEmits(t) =
                    {Event("no_driver_available", thr[t].sos_id, NULL)}]_vars

\* C11: every step that takes a request into status 'assigned', or to
\* another ambulance while 'assigned', leaves an accept-timeout check armed
\* for that request and the ambulance just claimed
C11_AssignArmsTimer ==
    [][\A r \in Reqs :
          (/\ sos'[r].status = "assigned"
           /\ \/ sos[r].status # "assigned"
              \/ sos[r].assigned_ambulance_id # sos'[r].assigned_ambulance_id)
          => <<r, sos'[r].assigned_ambulance_id>> \in timers']_vars

\* C12: when armed timers fire, a request assigned to an ambulance does not
\* stay 'assigned' to that ambulance forever: it returns to 'pending', goes
\* to another ambulance or is accepted, in every assignment cycle
C12_NonResponseAbandoned ==
    \A r \in Reqs, a \in Ambs :
        (sos[r].status = "assigned" /\ sos[r].assigned_ambulance_id = a)
        ~> ~(sos[r].status = "assigned" /\ sos[r].assigned_ambulance_id = a)

\* the ambulances that are busy on behalf of request r
BusyFor(r) == {a \in Ambs : ambulances[a].status = "busy" /\ ambulances[a].current_sos_id = r}

\* C13: two dispatches of the same request are never in flight together, and
\* once no handler is in flight the only ambulance busy on behalf of a
\* request is the one the request references
C13_SerializedPerRequest ==
    /\ \A t, u \in Threads :
           (/\ t # u
            /\ thr[t].pc = "assign_commit"
            /\ thr[u].pc = "assign_commit")
           => thr[t].sos_id # thr[u].sos_id
    /\ AllIdle => \A r \in Reqs : BusyFor(r) \subseteq {sos[r].assigned_ambulance_id}

\* C14: in every reachable state an ambulance has a linked request exactly
\* when its status is 'busy'
C14_LinkIffBusy ==
    \A a \in Ambs : (ambulances[a].current_sos_id # NULL) <=> (ambulances[a].status = "busy")

\* C14: one ambulance is claimed and another has been released by the
\* completion of its request
C14_Witness ==
    /\ \E a \in Ambs : ambulances[a].status = "busy" /\ ambulances[a].current_sos_id # NULL
    /\ \E r \in Reqs :
           /\ sos[r].status = "completed"
           /\ sos[r].assigned_ambulance_id # NULL
           /\ ambulances[sos[r].assigned_ambulance_id].status = "available"

C16_NoAmbulanceAvailable ==
    [][\A t \in Threads, sid \in Reqs, hid \in Hospitals :
          (/\ AssignStart(t, sid, hid)
           /\ sos[sid].status = "pending"
           /\ \A a \in Ambs : ambulances[a].status # "available")
          => /\ AssignStartReply(sid, hid) = 503
             /\ sos'[sid].status = "pending"
             /\ sos'[sid].assigned_ambulance_id = NULL
             /\ UNCHANGED <<ambulances, timers, thr>>]_vars

\* C16: a pending request has its hospital confirmed and no ambulance is
\* available
C16_Witness ==
    /\ AllIdle
    /\ \A a \in Ambs : ambulances[a].status # "available"
    /\ \E r \in Reqs :
           /\ sos[r].status = "pending"
           /\ sos[r].assigned_ambulance_id = NULL
           /\ sos[r].selected_hospital_id # NULL

\* C17: for every location, find_nearest_driver returns no ambulance when
\* none is available, and otherwise an available ambulance at the least
\* distance from the location, the first in row order among those at that
\* distance
C17_NearestAvailable ==
    \A lat \in Coords :
        LET d == find_nearest_driver(lat)
            avail == {a \in Ambs : ambulances[a].status = "available"}
            dist(a) == IF ambulances[a].latitude >= lat
                       THEN ambulances[a].latitude - lat
                       ELSE lat - ambulances[a].latitude
        IN  IF avail = {} THEN d = NULL
            ELSE /\ d \in avail
                 /\ \A b \in avail : dist(d) <= dist(b)
                 /\ \A b \in avail : dist(b) = dist(d) => d <= b

\* C17: a dispatch has run find_nearest_driver on a pool with two available
\* ambulances at the same distance and holds the first of them
C17_Witness ==
    \E t \in Threads, a, b \in Ambs :
        /\ thr[t].pc = "assign_commit"
        /\ thr[t].driver = a
        /\ a < b
        /\ ambulances[a].status = "available"
        /\ ambulances[b].status = "available"
        /\ ambulances[a].latitude = ambulances[b].latitude
        /\ ambulances[a].latitude # sos[thr[t].sos_id].latitude

\* C18: driver_complete on a request in status 'arrived' leaves, in the one
\* step, the request 'completed' with completed_at set and the ambulance it
\* was assigned to 'available' without a linked request
C18_CompleteReleases ==
    [][\A a \in AmbArgs, sid \in Reqs :
          (driver_complete(a, sid) /\ sos[sid].status = "arrived")
          => /\ sos'[sid].status = "completed"
             /\ sos'[sid].completed_at
             /\ sos[sid].assigned_ambulance_id \in Ambs
             /\ ambulances'[sos[sid].assigned_ambulance_id].status = "available"
             /\ ambulances'[sos[sid].assigned_ambulance_id].current_sos_id = NULL]_vars

\* C18: a request that was dispatched is completed and its ambulance is
\* available again
C18_Witness ==
    \E r \in Reqs :
        /\ sos[r].status = "completed"
        /\ sos[r].completed_at
        /\ sos[r].assigned_at
        /\ sos[r].assigned_ambulance_id \in Ambs
        /\ ambulances[sos[r].assigned_ambulance_id].status = "available"
        /\ ambulances[sos[r].assigned_ambulance_id].current_sos_id = NULL

\* C19: the unassign of admin_reassign on a request in status 'assigned'
\* leaves the ambulance it was assigned to 'available' without a linked
\* request and the request without an ambulance and without assigned_at,
\* and the claim that follows finds the request without an ambulance
C19_ReassignReleasesFirst ==
    [][/\ \A t \in Threads :
            (AdminUnassign(t) /\ sos[thr[t].sos_id].status = "assigned")
            => /\ sos'[thr[t].sos_id].assigned_ambulance_id = NULL
               /\ ~sos'[thr[t].sos_id].assigned_at
               /\ sos[thr[t].sos_id].assigned_ambulance_id \in Ambs
               /\ ambulances'[sos[thr[t].sos_id].assigned_ambulance_id].status = "available"
               /\ ambulances'[sos[thr[t].sos_id].assigned_ambulance_id].current_sos_id = NULL
       /\ \A t \in Threads :
            AdminCommit(t) => sos[thr[t].sos_id].assigned_ambulance_id = NULL]_vars

\* C20: in every reachable state, for every request that is neither
\* completed nor cancelled, some operation can take it to 'cancelled' with
\* the ambulance it was assigned to, if any, 'available'
C20_CancelExists ==
    \A r \in Reqs :
        sos[r].status \in Active
        => ENABLED (/\ Next
                    /\ sos'[r].status = "cancelled"
                    /\ sos[r].assigned_ambulance_id \in Ambs
                       => ambulances'[sos[r].assigned_ambulance_id].status = "available")


(* ------------------------- claims on the scoring ----------------------- *)

\* the radius rank_hospitals was asked for in the last response
AskedRadius == IF resp.args[2] # 0 THEN resp.args[2] ELSE Config.SEARCH_RADIUS_KM

\* the ids of the hospitals of a list of scored hospitals
IdsOf(scored) == {scored[i].hospital.id : i \in 1..Len(scored)}

\* available counts within the totals, load within 0..100, success rate
\* within 0..1
ValidHospital(h) ==
    /\ h.available_icu_beds >= 0 /\ h.available_icu_beds <= h.icu_beds
    /\ h.available_general_beds >= 0 /\ h.available_general_beds <= h.total_beds
    /\ h.load_percentage >= 0 /\ h.load_percentage <= 100
    /\ h.historical_success_rate >= 0 /\ h.historical_success_rate <= One

\* each of the six component scores lies in [0, 1]
ComponentsInUnit(c) == \A k \in DOMAIN c : c[k] >= 0 /\ c[k] <= One

\* the sum of the six weights, in hundredths
WeightSum ==
    Config.WEIGHT_FACILITY + Config.WEIGHT_DISTANCE + Config.WEIGHT_BEDS
    + Config.WEIGHT_SPECIALIST + Config.WEIGHT_PREDICTION + Config.WEIGHT_HISTORY

\* C26: the candidates rank_hospitals returns for radius R are exactly the
\* hospitals whose unrounded distance from the request is at most R
C26_WithinRadius ==
    resp.op = "get_best_hospitals"
    => IdsOf(resp.body.all_scored)
       = {hospitals[i].id : i \in {j \in 1..Len(hospitals) :
              haversine(PatientLat, hospitals[j].latitude) <= AskedRadius}}

\* C27: the list rank_hospitals returns is ordered by total score, highest
\* first, and candidates of equal total score are in the order they have in
\* the hospital collection
C27_SortedStable ==
    resp.op = "get_best_hospitals"
    => \A i, j \in 1..Len(resp.body.all_scored) :
           i < j
           => /\ resp.body.all_scored[i].total_score >= resp.body.all_scored[j].total_score
              /\ resp.body.all_scored[i].total_score = resp.body.all_scored[j].total_score
                 => resp.body.all_scored[i].hospital.id < resp.body.all_scored[j].hospital.id

\* C27: a ranked list of three candidates in which two have the same total
\* score and the third another one
C27_Witness ==
    /\ resp.op = "get_best_hospitals"
    /\ Len(resp.body.all_scored) = 3
    /\ \E i, j, k \in 1..3 :
           /\ i < j
           /\ resp.body.all_scored[i].total_score = resp.body.all_scored[j].total_score
           /\ resp.body.all_scored[k].total_score # resp.body.all_scored[i].total_score

\* C28: get_best_hospitals returns the first ranked candidate as best (none
\* when there is none) and the second as backup (none when there are fewer
\* than two), best and backup are different hospitals, backup's score is at
\* most best's, and the count it reports is the number of hospitals scored
C28_BestBackupCount ==
    resp.op = "get_best_hospitals"
    => LET ranked == resp.body.all_scored
       IN  /\ resp.body.best = IF Len(ranked) > 0 THEN ranked[1] ELSE NoScored
           /\ resp.body.backup = IF Len(ranked) > 1 THEN ranked[2] ELSE NoScored
           /\ Len(ranked) > 1
              => /\ resp.body.best.hospital.id # resp.body.backup.hospital.id
                 /\ resp.body.backup.total_score <= resp.body.best.total_score
           /\ resp.body.total_candidates = Len(hospitals)

\* C29: for every hospital the six component scores lie in [0, 1], also
\* when its counts exceed its totals or its load exceeds 100; for a hospital
\* within those bounds the total before the bonus lies in [0, 1] and the
\* total after the bonus is at most 1
C29_ScoresInUnit ==
    resp.op = "get_best_hospitals"
    => \A i \in 1..Len(hospitals) :
           LET c == Components(hospitals[i], PatientLat, resp.args[1])
           IN  /\ ComponentsInUnit(c)
               /\ ValidHospital(hospitals[i]) /\ WeightSum = 100
                  => /\ WeightedTotal(c) >= 0
                     /\ WeightedTotal(c) <= 100 * One
                     /\ BonusTotal(hospitals[i], c, resp.args[1]) <= 100 * One

\* C30: the engine scores only under a configuration whose six weights sum
\* to 1.00
C30_WeightsSumToOne == resp.op = "get_best_hospitals" => WeightSum = 100

(* ------------------------- claims on the journal ----------------------- *)

\* C25: the event log is append-only: every step leaves the rows event_log
\* had, each with its request, ambulance, type and detail, at their places,
\* and adds rows, if any, after them
C25_LogAppendOnly ==
    [][/\ Len(event_log') >= Len(event_log)
       /\ SubSeq(event_log', 1, Len(event_log)) = event_log]_vars

\* C25: a log of three rows, the last written when two were there
C25_Witness ==
    /\ Len(event_log) = MaxEvents
    /\ event_log[1] # event_log[MaxEvents]

\* C22: an intake without coordinates, or with an emergency type that is no
\* key of EMERGENCY_REQUIREMENTS, is answered 400 before any write: no
\* request row, no score row and no event row is written, no row changes and
\* nothing is emitted
C22_InvalidIntakeWritesNothing ==
    [][\A lat \in {PatientLat, NoCoord}, ty \in TypeArgs :
           (lat = NoCoord \/ ty \notin EMERGENCY_REQUIREMENTS)
           /\ handle_sosCall(lat, ty)
           => /\ UNCHANGED <<sos, ambulances, hospitals, event_log, sos_hospital_scores>>
              /\ resp'.status = 400
              /\ resp'.emits = {}]_vars

\* C22: an intake was answered 400 after an earlier one had been accepted
C22_Witness ==
    /\ resp.op = "handle_sos"
    /\ resp.status = 400
    /\ Exists(1)
    /\ ~Exists(2)
    /\ Len(event_log) = 1
    /\ Len(sos_hospital_scores) > 0

\* the score rows of request sid in a sos_hospital_scores table
ScoresOf(table, sid) == {i \in 1..Len(table) : table[i].sos_id = sid}

\* C23: when the ranking of a valid intake is empty, the request row is
\* created all the same, in status 'pending' with no selected and no backup
\* hospital and no ambulance, no score row is written for it, and the answer
\* is 404, which is not the 503 of a dispatch that finds no ambulance
C23_NoCandidates ==
    [][\A ty \in TypeArgs :
           /\ ty \in EMERGENCY_REQUIREMENTS
           /\ sos' # sos
           /\ rank_hospitals(hospitals, PatientLat, ty, 0) = <<>>
           /\ handle_sosCall(PatientLat, ty)
           => /\ sos'[NextSosId].status = "pending"
              /\ sos'[NextSosId].selected_hospital_id = NULL
              /\ sos'[NextSosId].backup_hospital_id = NULL
              /\ sos'[NextSosId].assigned_ambulance_id = NULL
              /\ ScoresOf(sos_hospital_scores', NextSosId) = {}
              /\ resp'.op = "handle_sos"
              /\ resp'.status = 404
              /\ resp'.status # 503]_vars

\* C23: the second intake of a run found no hospital in range
C23_Witness ==
    /\ resp.op = "handle_sos"
    /\ resp.status = 404
    /\ resp.body.sos_id = 2
    /\ sos[2].status = "pending"
    /\ \A i \in 1..Len(hospitals) :
           haversine(PatientLat, hospitals[i].latitude) > Config.SEARCH_RADIUS_KM

\* C24: after an intake that found candidates the new request is 'pending'
\* without ambulance, its selected hospital is the first of the ranking, its
\* backup hospital the second (none when the ranking has one candidate), and
\* sos_hospital_scores has got exactly one row for each ranked candidate and
\* the new request, and no other row
C24_IntakePersistsRanking ==
    [][\A ty \in TypeArgs :
           LET ranked == rank_hospitals(hospitals, PatientLat, ty, 0)
               sid == NextSosId
           IN  /\ ty \in EMERGENCY_REQUIREMENTS
               /\ sos' # sos
               /\ ranked # <<>>
               /\ handle_sosCall(PatientLat, ty)
               => /\ sos'[sid].status = "pending"
                  /\ sos'[sid].assigned_ambulance_id = NULL
                  /\ sos'[sid].selected_hospital_id = ranked[1].hospital.id
                  /\ sos'[sid].backup_hospital_id =
                         IF Len(ranked) > 1 THEN ranked[2].hospital.id ELSE NULL
                  /\ Len(sos_hospital_scores') = Len(sos_hospital_scores) + Len(ranked)
                  /\ SubSeq(sos_hospital_scores', 1, Len(sos_hospital_scores))
                         = sos_hospital_scores
                  /\ \A k \in 1..Len(ranked) :
                         Cardinality({i \in ScoresOf(sos_hospital_scores', sid) :
                             sos_hospital_scores'[i].hospital_id = ranked[k].hospital.id}) = 1
                  /\ Cardinality(ScoresOf(sos_hospital_scores', sid)) = Len(ranked)
                  /\ resp'.status = 200]_vars

\* C24: the second intake of a run got a selected and a backup hospital and
\* two score rows, after the two rows of the first
C24_Witness ==
    /\ resp.op = "handle_sos"
    /\ resp.status = 200
    /\ resp.body.sos_id = 2
    /\ sos[2].selected_hospital_id # NULL
    /\ sos[2].backup_hospital_id # NULL
    /\ sos[2].backup_hospital_id # sos[2].selected_hospital_id
    /\ Cardinality(ScoresOf(sos_hospital_scores, 2)) = 2
    /\ Cardinality(ScoresOf(sos_hospital_scores, 1)) = 2

\* a dispatch or an admin reassignment that names a request or a hospital
\* that has no row is answered 404 and writes nothing
UnknownDispatchRejected ==
    /\ \A sid \in Reqs, hid \in HospitalArgs \ {0} :
           (~Exists(sid) \/ hid \notin Hospitals) /\ assign_ambulanceCall(1, sid, hid)
           => /\ resp'.status = 404
              /\ UNCHANGED <<sos, ambulances, timers, event_log, sos_hospital_scores>>
    /\ \A sid \in Reqs, a \in 0..(NumAmbs + 1) :
           ~Exists(sid) /\ admin_reassignCall(1, sid, a)
           => /\ resp'.status = 404
              /\ UNCHANGED <<sos, ambulances, timers, event_log, sos_hospital_scores>>

\* no step of an admin reassignment that names an ambulance that has no row
\* changes a request or an ambulance, and the handler's answer is 404
UnknownAmbulanceReassignRejected ==
    \A t \in Threads :
        /\ thr[t].pc \in {"admin_unassign", "admin_find"}
        /\ thr[t].driver # 0
        /\ thr[t].driver \notin Ambs
        /\ thr'[t] # thr[t]
        => /\ UNCHANGED <<sos, ambulances, event_log>>
           /\ thr'[t].pc = "idle" => resp'.status = 404

\* a driver action that names a request that has no row is not answered 200
UnknownRequestDriverRejected ==
    \A a \in Ambs, sid \in Reqs :
        /\ ~Exists(sid)
        /\ \/ driver_acceptCall(a, sid)
           \/ driver_enrouteCall(a, sid)
           \/ driver_arrivedCall(a, sid)
           \/ driver_completeCall(a, sid)
        => resp'.status # 200

\* C21: an operation that names a hospital, an ambulance or a request that
\* has no row is answered 404 and changes nothing: an admin reassignment
\* with an unknown ambulance leaves the request and its ambulance as they
\* were, and a driver action on an unknown request is not answered 200
C21_UnknownIdNotFound ==
    [][/\ UnknownDispatchRejected
       /\ UnknownAmbulanceReassignRejected
       /\ UnknownRequestDriverRejected]_vars

(* --------------------- claims on radius and scores --------------------- *)

\* the radius a call falls back to: the configured one when it is positive,
\* the documented default otherwise
FallbackRadius ==
    IF Config.SEARCH_RADIUS_KM > 0 THEN Config.SEARCH_RADIUS_KM
    ELSE DefaultConfig.SEARCH_RADIUS_KM

\* C31: a ranking asked with a negative radius, or with none under a
\* configured radius that is not positive, returns the hospitals within the
\* default radius, each with the distance score the default radius gives
C31_NonPositiveRadiusFallsBack ==
    resp.op = "get_best_hospitals"
    /\ (resp.args[2] < 0 \/ (resp.args[2] = 0 /\ Config.SEARCH_RADIUS_KM <= 0))
    => /\ IdsOf(resp.body.all_scored)
              = {hospitals[i].id : i \in {j \in 1..Len(hospitals) :
                     Round(haversine(PatientLat, hospitals[j].latitude), 10)
                         <= FallbackRadius}}
       /\ \A i \in 1..Len(resp.body.all_scored) :
              resp.body.all_scored[i].scores.distance
                  = Round(Max(One - Min((One \div FallbackRadius)
                                  * resp.body.all_scored[i].distance_km, One), 0),
                          One \div 1000)

\* 0.50*icuAvail/icuTotal + 0.25*genAvail/totalBeds + 0.25*(1 - load/100) in
\* hundredths of One, a term with total 0 being 0.5; 0.5 when both totals are 0
BedFormula(h) ==
    LET icuTerm == IF h.icu_beds = 0 THEN One \div 2
                   ELSE (One * h.available_icu_beds) \div h.icu_beds
        genTerm == IF h.total_beds = 0 THEN One \div 2
                   ELSE (One * h.available_general_beds) \div h.total_beds
        loadTerm == One - (One * h.load_percentage) \div 100
    IN  IF h.icu_beds = 0 /\ h.total_beds = 0 THEN 50 * One
        ELSE 50 * icuTerm + 25 * genTerm + 25 * loadTerm

DefaultWeights ==
    \A k \in {"WEIGHT_FACILITY", "WEIGHT_DISTANCE", "WEIGHT_BEDS", "WEIGHT_SPECIALIST",
              "WEIGHT_PREDICTION", "WEIGHT_HISTORY"} : Config[k] = DefaultConfig[k]

\* 0.30*facility + 0.20*distance + 0.20*bed + 0.15*specialist
\* + 0.10*prediction + 0.05*history of unrounded components, in hundredths
PreBonus(c) ==
    30 * c.facility + 20 * c.distance + 20 * c.bed + 15 * c.specialist
    + 10 * c.prediction + 5 * c.history

\* the hospital's specializations contain the tag, whatever the case
DeclaresType(h, ty) == lower(ty) \in {lower(s) : s \in h.specializations}

\* min(total * 1.10, 1.0) when the hospital declares the type, total otherwise
PostBonus(h, c, ty) ==
    IF DeclaresType(h, ty) THEN Min(PreBonus(c) + PreBonus(c) \div 10, 100 * One)
    ELSE PreBonus(c)

\* with the default weights the total score of every ranked hospital is the
\* weighted sum of its unrounded components, with the bonus exactly for the
\* hospitals that declare the type
TotalIsWeightedSum ==
    resp.op = "get_best_hospitals" /\ DefaultWeights
    => \A i \in 1..Len(resp.body.all_scored) :
           LET h == resp.body.all_scored[i].hospital
               c == Components(h, PatientLat, resp.args[1])
           IN  resp.body.all_scored[i].total_score
                   = Round(PostBonus(h, c, resp.args[1]), One \div 100)

\* the hospital of the worked example scores 0.773 before and 0.851 after
\* the bonus
WorkedExampleTotals ==
    resp.op = "get_best_hospitals" /\ DefaultWeights /\ resp.args[1] = "cardiac"
    => \A i \in 1..Len(resp.body.all_scored) :
           LET h == resp.body.all_scored[i].hospital
               c == Components(h, PatientLat, "cardiac")
           IN  [h EXCEPT !.id = NULL] = WorkedExample
               => /\ Round(PreBonus(c), One \div 10) = 773 * (One \div 10)
                  /\ Round(PostBonus(h, c, "cardiac"), One \div 10) = 851 * (One \div 10)

\* with the default weights the bonus lowers the score of no ranked hospital
BonusNeverLowers ==
    resp.op = "get_best_hospitals" /\ DefaultWeights
    => \A i \in 1..Len(resp.body.all_scored) :
           LET h == resp.body.all_scored[i].hospital
               c == Components(h, PatientLat, resp.args[1])
           IN  resp.body.all_scored[i].total_score >= Round(PreBonus(c), One \div 100)

\* C33: the total score is 0.30*facility + 0.20*distance + 0.20*bed
\* + 0.15*specialist + 0.10*prediction + 0.05*history of the unrounded
\* components, replaced by min(total*1.10, 1.0) exactly when the hospital
\* declares the emergency type in whatever case, so that the bonus never
\* lowers a score; the worked example gives 0.773 and 0.851
C33_TotalAndBonus ==
    /\ TotalIsWeightedSum
    /\ WorkedExampleTotals
    /\ BonusNeverLowers

(* ------------------- claims on the ambulance links --------------------- *)

\* C35: no ambulance is leaked: every ambulance in status 'busy' is linked
\* to a request that is not completed or cancelled and whose
\* assigned_ambulance_id is that ambulance
C35_NoLeakedAmbulance ==
    \A a \in Ambs :
        ambulances[a].status = "busy"
        => /\ ambulances[a].current_sos_id \in Reqs
           /\ Exists(ambulances[a].current_sos_id)
           /\ sos[ambulances[a].current_sos_id].status \notin Terminal
           /\ sos[ambulances[a].current_sos_id].assigned_ambulance_id = a

\* C36: no step sets to 'available' an ambulance that is busy with a request
\* r2 that is not completed or cancelled and names it, unless the step
\* completes r2 or takes the ambulance from r2: an operation on another
\* request r1, in particular one already completed that still carries the
\* ambulance's id, leaves the ambulance of r2 busy
C36_NoForeignRelease ==
    [][\A a \in Ambs, r2 \in Reqs :
           /\ ambulances[a].status = "busy"
           /\ ambulances[a].current_sos_id = r2
           /\ Exists(r2)
           /\ sos[r2].status \notin Terminal
           /\ sos[r2].assigned_ambulance_id = a
           => ambulances'[a].status = "busy" \/ sos'[r2].status \in Terminal
              \/ sos'[r2].assigned_ambulance_id # a]_vars

\* C37: a request in status 'pending' has no assigned ambulance, and a
\* request in status 'assigned', 'accepted', 'enroute' or 'arrived' has one
C37_StatusMatchesAssignment ==
    \A r \in Reqs :
        /\ sos[r].status = "pending" => sos[r].assigned_ambulance_id = NULL
        /\ sos[r].status \in {"assigned", "accepted", "enroute", "arrived"}
           => sos[r].assigned_ambulance_id \in Ambs

\* a request that arrived with its ambulance beside one the admin put back to
\* 'pending' after completion
C37_Witness ==
    \E r, r2 \in Reqs :
        /\ sos[r].status = "arrived"
        /\ sos[r].assigned_ambulance_id \in Ambs
        /\ sos[r2].status = "pending"
        /\ sos[r2].completed_at
        /\ sos[r2].assigned_ambulance_id = NULL

\* C38: a driver_accepted or status_changed row is appended to event_log, and
\* the event emitted, only when the guarded UPDATE of the driver action
\* matched the request's row: an action with a wrong ambulance id or an
\* unknown request appends and emits nothing
C38_EventOnlyOnTransition ==
    [][\A a \in Ambs, sid \in Reqs :
           /\ ~RowMatches(sos, sid, a)
           /\ \/ driver_acceptCall(a, sid)
              \/ driver_enrouteCall(a, sid)
              \/ driver_arrivedCall(a, sid)
           => event_log' = event_log /\ resp'.emits = {}]_vars

\* C39: a dispatch that is answered 503 because no ambulance is available
\* leaves the request's selected_hospital_id and backup_hospital_id as they
\* were before the call
C39_RejectedDispatchKeepsHospitals ==
    [][\A t \in Threads, sid \in Reqs, hid \in Hospitals :
          (/\ AssignStart(t, sid, hid)
           /\ AssignStartReply(sid, hid) = 503)
          => /\ sos'[sid].selected_hospital_id = sos[sid].selected_hospital_id
             /\ sos'[sid].backup_hospital_id = sos[sid].backup_hospital_id]_vars
====
